---- MODULE Spec2Model ----
(***************************************************************************)
(* A model of three notification plugins of the apprise library:            *)
(*   apprise/plugins/zulip.py      (NotifyZulip)                            *)
(*   apprise/plugins/pagerduty.py  (NotifyPagerDuty)                        *)
(*   apprise/plugins/xbmc.py       (NotifyXBMC)                             *)
(*                                                                          *)
(* Text is modelled as a sequence of one-character strings, so that         *)
(* matching, trimming, lower-casing, quoting and splitting are computed     *)
(* character by character as the code computes them.  Python's None is the  *)
(* one-element sequence <<"None">>, which no text can equal.                *)
(***************************************************************************)
EXTENDS Integers, Sequences, FiniteSets, TLC

VARIABLES
    provider,     \* which plugin this run exercises: "zulip", "pagerduty", "xbmc"
    args,         \* the keyword arguments handed to __init__ (or parse results)
    adapter,      \* the constructed object, or NoAdapter when __init__ raised
    pc,           \* position: "new", "failed", "ready", "loop", "done", ...
    notify_type,  \* send()'s notify_type argument of the call in progress
    targets,      \* NotifyZulip.send: the local copy of the target list
    payload,      \* send(): the local payload object
    has_error,    \* NotifyZulip.send: the local error flag
    posts,        \* the requests.post calls of the call in progress, in order
    ret,          \* the value the last send() returned ("none" before it returns)
    ncalls,       \* the number of send() calls started on this adapter
    rendered,     \* the text the last url() call returned, or None
    adapter2,     \* the object rebuilt from parse_url(rendered)
    url_privacy   \* the privacy argument of the last url() call

vars == <<provider, args, adapter, pc, notify_type, targets, payload,
          has_error, posts, ret, ncalls, rendered, adapter2, url_privacy>>

-----------------------------------------------------------------------------
(* Bounds of the model *)

\* the longest Zulip target list explored
MaxTargets == 3

\* the number of send() calls made on one adapter
MaxSends == 2

-----------------------------------------------------------------------------
(* Text *)

None == <<"None">>

UpperSeq == <<"A","B","C","D","E","F","G","H","I","J","K","L","M",
              "N","O","P","Q","R","S","T","U","V","W","X","Y","Z">>

LowerSeq == <<"a","b","c","d","e","f","g","h","i","j","k","l","m",
              "n","o","p","q","r","s","t","u","v","w","x","y","z">>

DigitSeq == <<"0","1","2","3","4","5","6","7","8","9">>

Range(s) == {s[i] : i \in 1..Len(s)}

Letters == Range(UpperSeq) \cup Range(LowerSeq)

Digits == Range(DigitSeq)

\* \s of Python's re module, as far as the inputs explored contain it
WhiteSpace == {" ", "\t", "\r", "\n"}

\* str.lower() on one character
LowerChar(c) ==
    IF c \in Range(UpperSeq)
    THEN LowerSeq[CHOOSE i \in 1..Len(UpperSeq) : UpperSeq[i] = c]
    ELSE c

\* str.lower()
Lower(s) == [i \in 1..Len(s) |-> LowerChar(s[i])]

\* str.startswith(p)
StartsWith(s, p) == Len(p) <= Len(s) /\ SubSeq(s, 1, Len(p)) = p

\* str.endswith(p)
EndsWith(s, p) ==
    Len(p) <= Len(s) /\ SubSeq(s, Len(s) - Len(p) + 1, Len(s)) = p

\* the least number of a non-empty set of numbers
MinOf(S) == CHOOSE i \in S : \A j \in S : i <= j

\* the k-th number of a set of numbers, in increasing order
NthOf(S, k) == CHOOSE i \in S : Cardinality({j \in S : j < i}) = k - 1

RECURSIVE LStrip(_)
LStrip(s) ==
    IF s # <<>> /\ Head(s) \in WhiteSpace THEN LStrip(Tail(s)) ELSE s

RECURSIVE RStrip(_)
RStrip(s) ==
    IF s # <<>> /\ s[Len(s)] \in WhiteSpace
    THEN RStrip(SubSeq(s, 1, Len(s) - 1))
    ELSE s

\* str.strip()
Strip(s) == RStrip(LStrip(s))

\* the length of the longest prefix of s made of characters of cs, at most max:
\* what a greedy class{1,max} at the start of a pattern consumes
PrefixLen(s, cs, max) ==
    LET n == IF \A i \in 1..Len(s) : s[i] \in cs THEN Len(s)
             ELSE MinOf({i \in 1..Len(s) : s[i] \notin cs}) - 1
    IN  IF n > max THEN max ELSE n

\* the first index of character c in s, 0 when absent
IndexOf(s, c) ==
    IF \A i \in 1..Len(s) : s[i] # c THEN 0
    ELSE MinOf({i \in 1..Len(s) : s[i] = c})

\* bool(x) of a text-or-None value
Truthy(x) == x # None /\ x # <<>>

-----------------------------------------------------------------------------
(* Collaborators: the HTTP transport and the library helpers *)

\* requests.codes.ok, .created, .accepted
codes_ok == 200

codes_created == 201

codes_accepted == 202

\* what one requests.post call can do: come back with a status code, or
\* raise requests.RequestException
Response(code) == [exc |-> FALSE, status_code |-> code]

RequestException == [exc |-> TRUE, status_code |-> 0]

Outcomes ==
    {Response(c) : c \in {codes_ok, codes_created, codes_accepted, 500}}
        \cup {RequestException}

\* the outcomes tried for each POST of a Zulip fan-out
FanOutOutcomes == {Response(codes_ok), Response(500), RequestException}

\* NotifyType: the four generic notification types
NotifyTypes == {"info", "success", "warning", "failure"}

\* the adapter that does not exist: __init__ raised TypeError
NoAdapter == [ok |-> FALSE]

\* send() has not returned yet
NoReturn == "none"

PyBool(b) == IF b THEN "True" ELSE "False"

\* the body and the title of the notification sent
Body == <<"b","o","d","y">>

Title == <<"t","i","t","l","e">>

-----------------------------------------------------------------------------
(* NotifyZulip *)

\* [A-Z0-9_-] under re.I
NameChars == Letters \cup Digits \cup {"_", "-"}

\* [A-Z0-9] under re.I
AlnumChars == Letters \cup Digits

default_hostname == <<"z","u","l","i","p","c","h","a","t",".","c","o","m">>

default_notification_stream == <<"g","e","n","e","r","a","l">>

BotSuffix == <<"-","b","o","t">>

\* VALIDATE_BOTNAME.match(text): the group "name", or None when no match
VALIDATE_BOTNAME(text) ==
    LET n == PrefixLen(text, NameChars, 32)
    IN  IF n = 0 THEN None ELSE SubSeq(text, 1, n)

\* no match of a regular expression, no result of a helper
NoMatch == [matched |-> FALSE]

\* VALIDATE_ORG.match(text): the groups "org" and "hostname" (None when the
\* optional group did not take part), or NoMatch
VALIDATE_ORG(text) ==
    LET n    == PrefixLen(text, NameChars, 32)
        rest == SubSeq(text, n + 1, Len(text))
        h    == IF rest # <<>> /\ Head(rest) = "."
                THEN PrefixLen(Tail(rest), {c \in Range(rest) : c \notin WhiteSpace},
                               Len(rest))
                ELSE 0
    IN  IF n = 0 THEN NoMatch
        ELSE [matched |-> TRUE,
              org |-> SubSeq(text, 1, n),
              hostname |-> IF h = 0 THEN None ELSE SubSeq(rest, 2, h + 1)]

\* validate_regex(token, r"^[A-Z0-9]{32}$", "i"): the trimmed token when it is
\* 32 alphanumeric characters, None otherwise
ValidateToken(token) ==
    IF token = None THEN None
    ELSE LET t == Strip(token)
         IN  IF Len(t) = 32 /\ Range(t) \subseteq AlnumChars THEN t ELSE None

\* parse_list(targets): the non-empty entries, in order
RECURSIVE parse_list(_)
parse_list(ts) ==
    IF ts = <<>> THEN <<>>
    ELSE IF Head(ts) = <<>> THEN parse_list(Tail(ts))
    ELSE <<Head(ts)>> \o parse_list(Tail(ts))

\* is_email(target): NoMatch when the text is no e-mail address, else the
\* address without the angle brackets a "Name <user@host>" form puts around it
is_email(target) ==
    LET inner == IF target # <<>> /\ target[Len(target)] = ">"
                    /\ IndexOf(target, "<") > 0
                 THEN SubSeq(target, IndexOf(target, "<") + 1, Len(target) - 1)
                 ELSE target
        at    == IndexOf(inner, "@")
        dom   == SubSeq(inner, at + 1, Len(inner))
        dot   == IndexOf(dom, ".")
    IN  IF at > 1 /\ dot > 1 /\ dot < Len(dom)
           /\ "@" \notin Range(dom) /\ Range(inner) \cap (WhiteSpace \cup {"<", ">"}) = {}
        THEN [matched |-> TRUE, full_email |-> inner]
        ELSE NoMatch

\* an __init__ that stores the matched name with its suffix
Z_botname_keep(botname) ==
    IF botname = None THEN None
    ELSE VALIDATE_BOTNAME(Strip(botname))

\* NotifyZulip.__init__: the stored bot name, or None when it is invalid
Z_botname(botname) ==
    IF botname = None THEN None
    ELSE LET name == VALIDATE_BOTNAME(Strip(botname))
         IN  IF name = None THEN None
             ELSE IF EndsWith(name, BotSuffix)
                  THEN SubSeq(name, 1, Len(name) - Len(BotSuffix))
                  ELSE name

\* an __init__ that takes the token as it is given
Z_init_any_token(a) ==
    LET botname == Z_botname(a.botname)
        org     == IF a.organization = None THEN NoMatch
                   ELSE VALIDATE_ORG(Strip(a.organization))
        token   == a.token
        tlist   == parse_list(a.targets)
    IN  IF botname = None \/ ~org.matched \/ token = None THEN NoAdapter
        ELSE [ok |-> TRUE,
              botname |-> botname,
              organization |-> org.org,
              hostname |-> IF Truthy(org.hostname) THEN org.hostname
                           ELSE default_hostname,
              token |-> token,
              targets |-> IF Len(tlist) = 0
                          THEN <<default_notification_stream>>
                          ELSE tlist]

\* NotifyZulip.__init__
Z_init(a) ==
    LET botname == Z_botname(a.botname)
        org     == IF a.organization = None THEN NoMatch
                   ELSE VALIDATE_ORG(Strip(a.organization))
        token   == ValidateToken(a.token)
        tlist   == parse_list(a.targets)
    IN  IF botname = None \/ ~org.matched \/ token = None THEN NoAdapter
        ELSE [ok |-> TRUE,
              botname |-> botname,
              organization |-> org.org,
              hostname |-> IF Truthy(org.hostname) THEN org.hostname
                           ELSE default_hostname,
              token |-> token,
              targets |-> IF Len(tlist) = 0
                          THEN <<default_notification_stream>>
                          ELSE tlist]

\* notify_url.format(org=..., hostname=...)
Z_notify_url(self) ==
    <<"h","t","t","p","s",":","/","/">> \o self.organization \o <<".">>
        \o self.hostname \o <<"/","a","p","i","/","v","1","/","m","e","s","s","a","g","e","s">>

\* the user name of the HTTP Basic authentication send() uses
Z_auth_user(self) ==
    self.botname \o BotSuffix \o <<"@">> \o self.organization \o <<".">>
        \o self.hostname

\* a send() that sets "stream" only on a payload that has no type yet
Z_payload_type_carry(prev, target) ==
    IF is_email(target).matched THEN "private"
    ELSE IF prev.type = "unset" THEN "stream"
    ELSE prev.type

\* send(): payload["type"] for one target, given the payload left by the
\* previous iteration
Z_payload_type(prev, target) ==
    IF is_email(target).matched THEN "private" ELSE "stream"

\* send(): payload["to"] for one target
Z_payload_to(prev, target) ==
    IF ~is_email(target).matched THEN target ELSE is_email(target).full_email

\* a send() whose error flag remembers only the last POST
Z_has_error_last(flag, outcome) ==
    outcome.exc \/ outcome.status_code # codes_ok

\* send(): the error flag after one POST
Z_has_error(flag, outcome) ==
    IF outcome.exc THEN TRUE
    ELSE IF outcome.status_code # codes_ok THEN TRUE
    ELSE flag

\* a send() that pops from self.targets itself
Z_self_after_pop_alias(self, remaining) == [self EXCEPT !.targets = remaining]

\* send(): the adapter after targets.pop(0); targets is list(self.targets),
\* a copy, so the pop leaves self.targets as it was
Z_self_after_pop(self, remaining) == self

\* a send() that gives up on the remaining targets at the first failure
Z_remaining_abort(ts, outcome) ==
    IF outcome.exc \/ outcome.status_code # codes_ok THEN << >> ELSE Tail(ts)

\* send(): the target list left after one iteration, whatever its outcome
Z_remaining(ts, outcome) == Tail(ts)

-----------------------------------------------------------------------------
(* NotifyPagerDuty *)

\* a value that is not text (an int, a list) given where text is expected
NonText == <<"NonText">>

\* the literal False the severity lookup falls back to
PyFalse == <<"False">>

\* a dict with no entry
EmptyDict == << >>

\* class PagerDutySeverity
PagerDutySeverity ==
    [INFO     |-> <<"i","n","f","o">>,
     WARNING  |-> <<"w","a","r","n","i","n","g">>,
     ERROR    |-> <<"e","r","r","o","r">>,
     CRITICAL |-> <<"c","r","i","t","i","c","a","l">>]

PAGERDUTY_SEVERITY_MAP ==
    [info    |-> PagerDutySeverity.INFO,
     success |-> PagerDutySeverity.INFO,
     warning |-> PagerDutySeverity.WARNING,
     failure |-> PagerDutySeverity.CRITICAL]

PAGERDUTY_SEVERITIES ==
    <<PagerDutySeverity.INFO, PagerDutySeverity.WARNING,
      PagerDutySeverity.CRITICAL, PagerDutySeverity.ERROR>>

\* class PagerDutyRegion
PagerDutyRegion == [US |-> <<"u","s">>, EU |-> <<"e","u">>]

PAGERDUTY_REGIONS == <<PagerDutyRegion.US, PagerDutyRegion.EU>>

HostUS == <<"e","v","e","n","t","s",".","p","a","g","e","r","d","u","t","y",".","c","o","m">>

HostEU == <<"e","v","e","n","t","s",".","e","u",".","p","a","g","e","r","d","u","t","y",".","c","o","m">>

PAGERDUTY_API_LOOKUP(region) ==
    IF region = PagerDutyRegion.US THEN HostUS
    ELSE IF region = PagerDutyRegion.EU THEN HostEU
    ELSE None

default_region == PagerDutyRegion.US

default_source == <<"A","p","p","r","i","s","e">>

default_component == <<"N","o","t","i","f","i","c","a","t","i","o","n">>

event_action == <<"t","r","i","g","g","e","r">>

\* validate_regex(value): the trimmed value when it holds a character that is
\* not white space, None otherwise
validate_regex(value) ==
    IF value = None \/ value = NonText THEN None
    ELSE IF Strip(value) = <<>> THEN None
    ELSE Strip(value)

\* __init__: self.source; None stands for the TypeError raised
PD_source(source) ==
    IF Truthy(source) THEN validate_regex(source) ELSE default_source

\* an __init__ in which the assignment of line 253 is the last one made when
\* the component is omitted
PD_component_from_source(source, component) ==
    LET first == IF Truthy(source) THEN default_component ELSE default_source
    IN  IF Truthy(component) THEN validate_regex(component) ELSE first

\* __init__: self.component after the two assignments of lines 253 and 256-267
PD_component(source, component) ==
    LET first == IF Truthy(source) THEN None ELSE default_source
        second == default_component
    IN  IF Truthy(component) THEN validate_regex(component) ELSE second

\* an __init__ that looks the region up as given, without lower-casing it
PD_region_name_exact(region_name) ==
    IF region_name = NonText THEN None
    ELSE LET r == IF region_name = None THEN default_region ELSE region_name
         IN  IF \E i \in 1..Len(PAGERDUTY_REGIONS) : PAGERDUTY_REGIONS[i] = r
             THEN r
             ELSE None

\* __init__: self.region_name; None stands for the TypeError raised
PD_region_name(region_name) ==
    IF region_name = NonText THEN None
    ELSE LET r == IF region_name = None THEN default_region
                  ELSE Lower(region_name)
         IN  IF \E i \in 1..Len(PAGERDUTY_REGIONS) : PAGERDUTY_REGIONS[i] = r
             THEN r
             ELSE None

\* __init__: whether one severity name matches the given text
PD_severity_match(s, severity) == StartsWith(Lower(s), severity)

\* __init__: self.severity: None when omitted, the first matching name of
\* PAGERDUTY_SEVERITIES, or False
PD_severity(severity) ==
    IF severity = None THEN None
    ELSE LET hits == {i \in 1..Len(PAGERDUTY_SEVERITIES) :
                        PD_severity_match(PAGERDUTY_SEVERITIES[i], severity)}
         IN  IF hits = {} THEN PyFalse
             ELSE PAGERDUTY_SEVERITIES[CHOOSE i \in hits : \A j \in hits : i <= j]

\* NotifyPagerDuty.__init__
PD_init(a) ==
    LET apikey   == validate_regex(a.apikey)
        ikey     == validate_regex(a.integrationkey)
        source   == PD_source(a.source)
        comp     == PD_component(a.source, a.component)
        region   == PD_region_name(a.region_name)
        severity == PD_severity(a.severity)
    IN  IF apikey = None \/ ikey = None \/ source = None \/ comp = None
           \/ region = None \/ severity = PyFalse
        THEN NoAdapter
        ELSE [ok |-> TRUE,
              apikey |-> apikey,
              integration_key |-> ikey,
              source |-> source,
              component |-> comp,
              region_name |-> region,
              severity |-> severity,
              click |-> a.click,
              class_id |-> a.class_id,
              group |-> a.group,
              details |-> a.details,
              include_image |-> a.include_image]

\* a send() in which the notify type wins over the configured severity
PD_payload_severity_type_first(self, nt) == PAGERDUTY_SEVERITY_MAP[nt]

\* send(): payload["payload"]["severity"]
PD_payload_severity(self, nt) ==
    IF ~Truthy(self.severity) THEN PAGERDUTY_SEVERITY_MAP[nt] ELSE self.severity

\* an optional part of a payload
Opt(cond, part) == IF cond THEN part ELSE EmptyDict

\* send(): the payload object; image_url is what self.image_url() returned
PD_payload(self, body, nt, image_url) ==
    [routing_key |-> self.integration_key,
     payload |->
        [summary |-> body,
         severity |-> PD_payload_severity(self, nt),
         source |-> self.source,
         component |-> self.component]
        @@ Opt(Truthy(self.group), [group |-> self.group])
        @@ Opt(Truthy(self.class_id), [class |-> self.class_id])
        @@ Opt(self.details # EmptyDict, [custom_details |-> self.details]),
     client |-> <<"A","p","p","r","i","s","e">>,
     event_action |-> event_action]
    @@ Opt(Truthy(self.click), [links |-> <<[href |-> self.click]>>])
    @@ Opt(self.include_image /\ Truthy(image_url),
           [images |-> <<[src |-> image_url, alt |-> nt]>>])

\* send(): the host of PAGERDUTY_API_LOOKUP[self.region_name]
PD_notify_url(self) == PAGERDUTY_API_LOOKUP(self.region_name)

\* a send() that takes only 200 for a success
PD_send_result_ok_only(outcome) ==
    ~outcome.exc /\ outcome.status_code = codes_ok

\* send(): the value returned for the outcome of the one POST
PD_send_result(outcome) ==
    IF outcome.exc THEN FALSE
    ELSE IF outcome.status_code \notin {codes_ok, codes_created, codes_accepted}
    THEN FALSE
    ELSE TRUE

-----------------------------------------------------------------------------
(* NotifyXBMC *)

\* an int argument: <<n>>, or NoInt when it is None
NoInt == << >>

SomeInt(n) == <<n>>

xbmc_default_port == 8080

secure_default_port == 443

xbmc_remote_protocol == 2

kodi_remote_protocol == 6

duration_default == 12

duration_min == 1

\* NotifyXBMC.__init__: self.duration
X_duration(duration) ==
    IF ~(duration # NoInt /\ duration_min > 0) THEN SomeInt(duration_default)
    ELSE duration

\* NotifyXBMC.__init__ (with the fields URLBase.__init__ stores)
X_init(a) ==
    [ok |-> TRUE,
     host |-> a.host,
     port |-> a.port,
     user |-> a.user,
     password |-> a.password,
     secure |-> a.secure,
     schema |-> IF a.secure THEN <<"h","t","t","p","s">> ELSE <<"h","t","t","p">>,
     protocol |-> a.protocol,
     duration |-> X_duration(a.duration),
     include_image |-> a.include_image]

\* _payload_20
X_payload_20(self, title, body, nt, image_url) ==
    [jsonrpc |-> <<"2",".","0">>,
     method |-> "GUI.ShowNotification",
     params |->
        [title |-> title, message |-> body,
         displaytime |-> self.duration[1] * 1000]
        @@ Opt(self.include_image /\ Truthy(image_url), [image |-> image_url]),
     id |-> 1]

\* a _payload_60 that sets "type" whether or not an image is attached
X_payload_60_typed(self, title, body, nt, image_url) ==
    [jsonrpc |-> <<"2",".","0">>,
     method |-> "GUI.ShowNotification",
     params |->
        [title |-> title, message |-> body,
         displaytime |-> self.duration[1] * 1000]
        @@ Opt(self.include_image /\ Truthy(image_url), [image |-> image_url]),
     id |-> 1,
     type |-> IF nt = "failure" THEN "error"
              ELSE IF nt = "warning" THEN "warning"
              ELSE "info"]

\* _payload_60
X_payload_60(self, title, body, nt, image_url) ==
    [jsonrpc |-> <<"2",".","0">>,
     method |-> "GUI.ShowNotification",
     params |->
        [title |-> title, message |-> body,
         displaytime |-> self.duration[1] * 1000]
        @@ Opt(self.include_image /\ Truthy(image_url), [image |-> image_url]),
     id |-> 1]
    @@ Opt(self.include_image /\ Truthy(image_url),
           [type |-> IF nt = "failure" THEN "error"
                     ELSE IF nt = "warning" THEN "warning"
                     ELSE "info"])

\* send(): the payload for the adapter's protocol version
X_payload(self, title, body, nt, image_url) ==
    IF self.protocol = xbmc_remote_protocol
    THEN X_payload_20(self, title, body, nt, image_url)
    ELSE X_payload_60(self, title, body, nt, image_url)

\* send(): where the POST goes: scheme, host and the port put in the URL
\* (NoInt when the URL carries none)
X_post_url(self) ==
    [schema |-> self.schema,
     host |-> self.host,
     port |-> IF self.port # NoInt /\ self.port # SomeInt(0) THEN self.port ELSE NoInt]

\* send(): the value returned for the outcome of the one POST
X_send_result(outcome) ==
    IF outcome.exc THEN FALSE
    ELSE IF outcome.status_code # codes_ok THEN FALSE
    ELSE TRUE

-----------------------------------------------------------------------------
(* Text of URLs: quoting, splitting, numbers *)

\* the concatenation of a sequence of texts
RECURSIVE Concat(_)
Concat(ts) == IF ts = << >> THEN << >> ELSE Head(ts) \o Concat(Tail(ts))

\* the texts of ts that are not empty, joined by sep
RECURSIVE Join(_, _)
Join(ts, sep) ==
    IF ts = << >> THEN << >>
    ELSE IF Head(ts) = << >> THEN Join(Tail(ts), sep)
    ELSE LET rest == Join(Tail(ts), sep)
         IN  IF rest = << >> THEN Head(ts) ELSE Head(ts) \o sep \o rest

\* the pieces of s between the characters of seps, empty pieces included
Split(s, seps) ==
    LET at == {i \in 1..Len(s) : s[i] \in seps}
        n  == Cardinality(at)
        bound(k) == IF k = 0 THEN 0
                    ELSE IF k = n + 1 THEN Len(s) + 1
                    ELSE NthOf(at, k)
    IN  [k \in 1..(n + 1) |-> SubSeq(s, bound(k - 1) + 1, bound(k) - 1)]

\* filter(bool, ...) on a list of texts
RECURSIVE NonEmpty(_)
NonEmpty(ts) ==
    IF ts = << >> THEN << >>
    ELSE IF Head(ts) = << >> THEN NonEmpty(Tail(ts))
    ELSE <<Head(ts)>> \o NonEmpty(Tail(ts))

\* the characters quote(safe="") leaves as they are
Unreserved == Letters \cup Digits \cup {"_", ".", "-", "~"}

\* the other characters the texts explored contain, and their two hex digits
Reserved == <<" ", "/", "+", "=", "&", "?", ":", "@", "%", "#", "<", ">", ",">>

ReservedHex ==
    << <<"2","0">>, <<"2","F">>, <<"2","B">>, <<"3","D">>, <<"2","6">>,
       <<"3","F">>, <<"3","A">>, <<"4","0">>, <<"2","5">>, <<"2","3">>,
       <<"3","C">>, <<"3","E">>, <<"2","C">> >>

QuoteChar(c) ==
    IF c \in Unreserved THEN <<c>>
    ELSE LET i == CHOOSE k \in 1..Len(Reserved) : Reserved[k] = c
         IN  <<"%">> \o ReservedHex[i]

\* URLBase.quote(content, safe=""): percent-encoding of every reserved character
quote(content) ==
    IF ~Truthy(content) THEN << >>
    ELSE Concat([i \in 1..Len(content) |-> QuoteChar(content[i])])

\* whether a %XX the model knows starts at index i of s
EscapeAt(s, i) ==
    /\ s[i] = "%" /\ i + 2 <= Len(s)
    /\ \E k \in 1..Len(Reserved) : ReservedHex[k] = <<s[i + 1], s[i + 2]>>

\* URLBase.unquote(content): "" for None or "", else the percent-decoding
unquote(content) ==
    IF ~Truthy(content) THEN << >>
    ELSE LET starts == {i \in 1..Len(content) : EscapeAt(content, i)}
             kept   == {i \in 1..Len(content) :
                           (i - 1) \notin starts /\ (i - 2) \notin starts}
         IN  IF starts = {} THEN content
             ELSE
             [k \in 1..Cardinality(kept) |->
                LET i == NthOf(kept, k)
                IN  IF i \in starts
                    THEN Reserved[CHOOSE r \in 1..Len(Reserved) :
                             ReservedHex[r] = <<content[i + 1], content[i + 2]>>]
                    ELSE content[i]]

\* str(n) of an int
RECURSIVE NatToText(_)
NatToText(n) ==
    IF n < 10 THEN <<DigitSeq[n + 1]>>
    ELSE NatToText(n \div 10) \o <<DigitSeq[(n % 10) + 1]>>

IntToText(n) == IF n < 0 THEN <<"-">> \o NatToText(0 - n) ELSE NatToText(n)

DigitValue(c) == (CHOOSE k \in 1..Len(DigitSeq) : DigitSeq[k] = c) - 1

RECURSIVE DigitsToNat(_, _)
DigitsToNat(s, acc) ==
    IF s = << >> THEN acc
    ELSE DigitsToNat(Tail(s), acc * 10 + DigitValue(Head(s)))

\* int(text): <<n>>, or NoInt for the ValueError of a text that is no number
\* and the TypeError of None
TextToInt(text) ==
    IF text = None THEN NoInt
    ELSE LET t == Strip(text)
             neg == t # << >> /\ Head(t) = "-"
             d == IF t # << >> /\ Head(t) \in {"-", "+"} THEN Tail(t) ELSE t
         IN  IF d = << >> \/ ~(Range(d) \subseteq Digits) THEN NoInt
             ELSE SomeInt(IF neg THEN 0 - DigitsToNat(d, 0) ELSE DigitsToNat(d, 0))

\* a dict as a function from keys to values
DictGet(d, k) == IF k \in DOMAIN d THEN d[k] ELSE None

\* "k in d and len(d[k])"
HasValue(d, k) == k \in DOMAIN d /\ Len(d[k]) > 0

\* the entries of a dict as a list of <<key, value>>, in some fixed order
RECURSIVE DictItems(_)
DictItems(d) ==
    IF DOMAIN d = {} THEN << >>
    ELSE LET k == CHOOSE x \in DOMAIN d : TRUE
         IN  <<<<k, d[k]>>>> \o DictItems([x \in DOMAIN d \ {k} |-> d[x]])

\* the dict of a list of <<key, value>>; a later entry replaces an earlier one
RECURSIVE DictOf(_)
DictOf(items) ==
    IF items = << >> THEN EmptyDict
    ELSE LET last == items[Len(items)]
         IN  (last[1] :> last[2]) @@ DictOf(SubSeq(items, 1, Len(items) - 1))

-----------------------------------------------------------------------------
(* The base class and the library helpers the plugins call *)

\* the index at which pat starts in s for the first time, 0 when it does not
FindFrom(s, pat, i) ==
    LET hits == {k \in i..(Len(s) - Len(pat) + 1) :
                    SubSeq(s, k, k + Len(pat) - 1) = pat}
    IN  IF hits = {} THEN 0 ELSE MinOf(hits)

\* the text before the first c of s and the text after it; found tells
\* whether s holds a c
Cut(s, c) ==
    LET i == IndexOf(s, c)
    IN  IF i = 0 THEN [found |-> FALSE, before |-> s, after |-> << >>]
        ELSE [found |-> TRUE, before |-> SubSeq(s, 1, i - 1),
              after |-> SubSeq(s, i + 1, Len(s))]

\* one "key=value" of a query string as <<key, value>>: both percent-decoded,
\* the value trimmed
QueryPair(kv) ==
    LET c == Cut(kv, "=") IN <<unquote(c.before), Strip(unquote(c.after))>>

\* the query string as a list of <<key, value>>
QueryItems(query) ==
    LET kvs == NonEmpty(Split(query, {"&"}))
    IN  [i \in 1..Len(kvs) |-> QueryPair(kvs[i])]

\* the entries whose key starts with "+", the "+" removed
RECURSIVE PlusItems(_)
PlusItems(items) ==
    IF items = << >> THEN << >>
    ELSE LET k == Head(items)[1]
         IN  IF Len(k) > 1 /\ Head(k) = "+"
             THEN <<<<Tail(k), Head(items)[2]>>>> \o PlusItems(Tail(items))
             ELSE PlusItems(Tail(items))

\* NotifyBase.parse_url(url, verify_host): scheme, user, password, host,
\* port, path and query of the URL; ok is FALSE when the URL cannot be parsed
BaseParseUrl(url, verify_host) ==
    LET mark      == FindFrom(url, <<":","/","/">>, 1)
        schema    == Lower(SubSeq(url, 1, mark - 1))
        rest      == SubSeq(url, mark + 3, Len(url))
        q         == Cut(rest, "?")
        p         == Cut(q.before, "/")
        fullpath  == IF p.found THEN <<"/">> \o p.after ELSE None
        a         == Cut(p.before, "@")
        hostport  == IF a.found THEN a.after ELSE a.before
        u         == Cut(a.before, ":")
        h         == Cut(hostport, ":")
        port      == IF h.found THEN TextToInt(h.after) ELSE NoInt
        items     == QueryItems(q.after)
    IN  IF mark <= 1 \/ (h.found /\ port = NoInt) \/ (verify_host /\ h.before = << >>)
        THEN [ok |-> FALSE]
        ELSE [ok |-> TRUE,
              schema |-> schema,
              secure |-> schema[Len(schema)] = "s",
              user |-> IF a.found /\ u.before # << >> THEN unquote(u.before) ELSE None,
              password |-> IF a.found /\ u.found THEN unquote(u.after) ELSE None,
              host |-> h.before,
              port |-> port,
              fullpath |-> fullpath,
              qsd |-> DictOf(items),
              qsdplus |-> DictOf(PlusItems(items))]

\* URLBase.split_path(path): the path's segments, percent-decoded
split_path(path) ==
    IF path = None THEN << >>
    ELSE LET segs == NonEmpty(Split(path, {"/", " ", "\t", "\r", "\n", ","}))
         IN  [i \in 1..Len(segs) |-> unquote(segs[i])]

\* parse_bool(value, default=False) of a query value; None is the value True
\* that qsd.get("image", True) gives for an absent key
parse_bool(value) ==
    IF value = None THEN TRUE
    ELSE LET v == Lower(SubSeq(value, 1, 2))
         IN  IF v \in {<<"n">>, <<"n","o">>, <<"f">>, <<"f","a">>, <<"0">>,
                       <<"o","f">>, <<"n","e">>, <<"d","e">>, <<"d","i">>}
             THEN FALSE
             ELSE IF v \in {<<"y">>, <<"y","e">>, <<"t">>, <<"t","r">>, <<"1">>,
                            <<"o","n">>, <<"e","n">>}
             THEN TRUE
             ELSE FALSE

RedactionToken == <<"*","*","*","*">>

\* URLBase.pprint(content, privacy, mode, safe=""): the quoted content, or
\* with privacy the fixed token for a secret and first...last otherwise
pprint(content, privacy, secret) ==
    IF ~privacy THEN quote(content)
    ELSE IF ~Truthy(content) THEN << >>
    ELSE IF secret THEN RedactionToken
    ELSE <<content[1]>> \o <<".",".",".">> \o <<content[Len(content)]>>

\* URLBase.url_parameters(): the parameters of the base class that differ
\* from their defaults; none for the adapters built here
url_parameters(privacy) == << >>

\* URLBase.urlencode(params) of a list of <<key, value>>
urlencode(params) ==
    Join([i \in 1..Len(params) |->
            quote(params[i][1]) \o <<"=">> \o quote(params[i][2])], <<"&">>)

-----------------------------------------------------------------------------
(* NotifyPagerDuty: url() and parse_url() *)

K_apikey == <<"a","p","i","k","e","y">>

K_integrationkey == <<"i","n","t","e","g","r","a","t","i","o","n","k","e","y">>

K_click == <<"c","l","i","c","k">>

K_group == <<"g","r","o","u","p">>

K_class == <<"c","l","a","s","s">>

K_severity == <<"s","e","v","e","r","i","t","y">>

K_source == <<"s","o","u","r","c","e">>

K_component == <<"c","o","m","p","o","n","e","n","t">>

K_region == <<"r","e","g","i","o","n">>

K_image == <<"i","m","a","g","e">>

K_duration == <<"d","u","r","a","t","i","o","n">>

Yes == <<"y","e","s">>

No == <<"n","o">>

\* a list with one <<key, value>> when cond holds, with none otherwise
Param(cond, k, v) == IF cond THEN <<<<k, v>>>> ELSE << >>

\* url(): the "+key" entries of the custom details
PD_detail_params(details) ==
    LET items == DictItems(details)
    IN  [i \in 1..Len(items) |-> <<<<"+">> \o items[i][1], items[i][2]>>]

\* a url() that leaves the severity out of the params
PD_url_params_no_severity(self, privacy) ==
    <<<<K_region, self.region_name>>,
      <<K_image, IF self.include_image THEN Yes ELSE No>>>>
    \o Param(Truthy(self.class_id), K_class, self.class_id)
    \o Param(Truthy(self.group), K_group, self.group)
    \o Param(self.click # None, K_click, self.click)
    \o PD_detail_params(self.details)
    \o url_parameters(privacy)

\* url(): the params dict, in the order its keys are set
PD_url_params(self, privacy) ==
    <<<<K_region, self.region_name>>,
      <<K_image, IF self.include_image THEN Yes ELSE No>>>>
    \o Param(Truthy(self.class_id), K_class, self.class_id)
    \o Param(Truthy(self.group), K_group, self.group)
    \o Param(self.click # None, K_click, self.click)
    \o Param(Truthy(self.severity), K_severity, self.severity)
    \o PD_detail_params(self.details)
    \o url_parameters(privacy)

\* NotifyPagerDuty.url
PD_url(self, privacy) ==
    <<"p","a","g","e","r","d","u","t","y",":","/","/">>
    \o pprint(self.integration_key, privacy, TRUE) \o <<"@">>
    \o pprint(self.apikey, privacy, TRUE) \o <<"/">>
    \o pprint(self.source, privacy, FALSE) \o <<"/">>
    \o pprint(self.component, privacy, FALSE) \o <<"?">>
    \o urlencode(PD_url_params(self, privacy))

\* parse_url(): a field a query value overrides: the query value when it is
\* given and not empty, the positional value otherwise
PD_override(qsd, k, positional) ==
    IF HasValue(qsd, k) THEN unquote(qsd[k]) ELSE positional

\* parse_url(): a field only the query can give
PD_optional(qsd, k) == IF HasValue(qsd, k) THEN unquote(qsd[k]) ELSE None

\* a parse_url() that takes the details from every query key
PD_parse_details_every_key(results) ==
    LET items == DictItems(results.qsd)
    IN  DictOf([i \in 1..Len(items) |->
                  <<unquote(items[i][1]), unquote(items[i][2])>>])

\* parse_url(): results["details"], the +-prefixed query keys and their
\* values, unquoted
PD_parse_details(results) ==
    LET items == DictItems(results.qsdplus)
    IN  DictOf([i \in 1..Len(items) |->
                  <<unquote(items[i][1]), unquote(items[i][2])>>])

\* a parse_url() that pops the first segment whoever gave the source
PD_path_after_source_popped(qsd, fullpath) ==
    IF fullpath = << >> THEN fullpath ELSE Tail(fullpath)

\* parse_url(): fullpath once the source is settled: fullpath.pop(0) runs
\* only when the query gave no source
PD_path_after_source(qsd, fullpath) ==
    IF HasValue(qsd, K_source) \/ fullpath = << >> THEN fullpath
    ELSE Tail(fullpath)

\* NotifyPagerDuty.parse_url, on the results of NotifyBase.parse_url
PD_parse_url(results) ==
    IF ~results.ok THEN [ok |-> FALSE]
    ELSE
    LET qsd      == results.qsd
        fullpath == split_path(results.fullpath)
        bysource == HasValue(qsd, K_source)
        rest     == PD_path_after_source(qsd, fullpath)
    IN  [ok |-> TRUE,
         apikey |-> PD_override(qsd, K_apikey, unquote(results.host)),
         integrationkey |-> PD_override(qsd, K_integrationkey, unquote(results.user)),
         click |-> PD_optional(qsd, K_click),
         group |-> PD_optional(qsd, K_group),
         class_id |-> PD_optional(qsd, K_class),
         severity |-> PD_optional(qsd, K_severity),
         source |-> IF bysource THEN unquote(qsd[K_source])
                    ELSE IF fullpath # << >> THEN Head(fullpath) ELSE None,
         component |-> IF HasValue(qsd, K_component) THEN unquote(qsd[K_component])
                       ELSE IF rest # << >> THEN Head(rest) ELSE None,
         details |-> PD_parse_details(results),
         region_name |-> PD_optional(qsd, K_region),
         include_image |-> parse_bool(DictGet(qsd, K_image))]

\* the adapter the library builds from a URL: NotifyPagerDuty(**parse_url(url))
PD_from_url(url) ==
    LET results == PD_parse_url(BaseParseUrl(url, FALSE))
    IN  IF ~results.ok THEN NoAdapter ELSE PD_init(results)

-----------------------------------------------------------------------------
(* NotifyXBMC: url(), url_identifier and parse_url() *)

xbmc_protocol == <<"x","b","m","c">>

kodi_protocol == <<"k","o","d","i">>

\* url() and url_identifier: the scheme for the adapter's protocol and security
X_default_schema(self) ==
    (IF self.protocol <= xbmc_remote_protocol THEN xbmc_protocol ELSE kodi_protocol)
    \o (IF self.secure THEN <<"s">> ELSE << >>)

\* url_identifier: (schema, user, password, host, port)
X_url_identifier(self) ==
    [schema |-> X_default_schema(self),
     user |-> self.user,
     password |-> self.password,
     host |-> self.host,
     port |-> IF self.port # NoInt /\ self.port # SomeInt(0) THEN self.port[1]
              ELSE IF self.secure THEN secure_default_port
              ELSE xbmc_default_port]

\* url(): default_port
X_default_port(self) ==
    IF self.secure THEN secure_default_port ELSE xbmc_default_port

\* url(): the port part of the URL
X_url_port(self) ==
    IF self.port = NoInt \/ self.port = SomeInt(0)
       \/ self.port = SomeInt(X_default_port(self))
    THEN << >>
    ELSE <<":">> \o IntToText(self.port[1])

\* url(): the authentication part of the URL
X_url_auth(self, privacy) ==
    IF Truthy(self.user) /\ Truthy(self.password)
    THEN quote(self.user) \o <<":">> \o pprint(self.password, privacy, TRUE) \o <<"@">>
    ELSE IF Truthy(self.user) THEN quote(self.user) \o <<"@">>
    ELSE << >>

\* NotifyXBMC.url
X_url(self, privacy) ==
    X_default_schema(self) \o <<":","/","/">>
    \o X_url_auth(self, privacy)
    \o self.host
    \o X_url_port(self)
    \o <<"/","?">>
    \o urlencode(<<<<K_image, IF self.include_image THEN Yes ELSE No>>,
                   <<K_duration, IntToText(self.duration[1])>>>>
                 \o url_parameters(privacy))

\* parse_url(): results["port"] after the XBMC default is applied
X_parse_port(schema, port) ==
    IF StartsWith(schema, xbmc_protocol)
    THEN IF port = NoInt \/ port = SomeInt(0)
         THEN SomeInt(xbmc_default_port)
         ELSE port
    ELSE port

\* parse_url(): results["duration"], absent when int() raises
X_parse_duration(qsd) ==
    LET n == TextToInt(DictGet(qsd, K_duration))
    IN  IF n = NoInt THEN NoInt
        ELSE SomeInt(IF n[1] < 0 THEN 0 - n[1] ELSE n[1])

\* NotifyXBMC.parse_url, on the results of NotifyBase.parse_url
X_parse_url(results) ==
    IF ~results.ok THEN [ok |-> FALSE]
    ELSE [ok |-> TRUE,
          host |-> results.host,
          user |-> results.user,
          password |-> results.password,
          secure |-> results.secure,
          protocol |-> IF StartsWith(results.schema, xbmc_protocol)
                       THEN xbmc_remote_protocol
                       ELSE kodi_remote_protocol,
          port |-> X_parse_port(results.schema, results.port),
          include_image |-> parse_bool(DictGet(results.qsd, K_image)),
          duration |-> X_parse_duration(results.qsd)]

\* the adapter the library builds from a URL: NotifyXBMC(**parse_url(url))
X_from_url(url) ==
    LET results == X_parse_url(BaseParseUrl(url, TRUE))
    IN  IF ~results.ok THEN NoAdapter ELSE X_init(results)

-----------------------------------------------------------------------------
(* NotifyZulip: url() and parse_url() *)

K_token == <<"t","o","k","e","n">>

K_to == <<"t","o">>

\* the characters of TARGET_LIST_DELIM
TARGET_LIST_DELIM == {" ", "\t", "\r", "\n", ",", "#", "\\", "/"}

\* url(): the organization, with the hostname when it is not the default
Z_url_organization(self) ==
    self.organization
    \o (IF self.hostname # default_hostname THEN <<".">> \o self.hostname
        ELSE << >>)

\* NotifyZulip.url
Z_url(self, privacy) ==
    <<"z","u","l","i","p",":","/","/">>
    \o quote(self.botname) \o <<"@">>
    \o quote(Z_url_organization(self)) \o <<"/">>
    \o pprint(self.token, privacy, FALSE) \o <<"/">>
    \o Join([i \in 1..Len(self.targets) |-> quote(self.targets[i])], <<"/">>)
    \o <<"?">>
    \o urlencode(url_parameters(privacy))

\* a parse_url() that splits the to= value on commas only
Z_parse_to_commas(qsd) ==
    IF HasValue(qsd, K_to)
    THEN NonEmpty(Split(unquote(qsd[K_to]), {","}))
    ELSE << >>

\* parse_url(): the entries of the to= value
Z_parse_to(qsd) ==
    IF HasValue(qsd, K_to)
    THEN NonEmpty(Split(unquote(qsd[K_to]), TARGET_LIST_DELIM))
    ELSE << >>

\* NotifyZulip.parse_url, on the results of NotifyBase.parse_url
Z_parse_url(results) ==
    IF ~results.ok THEN [ok |-> FALSE]
    ELSE
    LET qsd     == results.qsd
        path    == split_path(results.fullpath)
        bytoken == HasValue(qsd, K_token)
    IN  [ok |-> TRUE,
         botname |-> unquote(results.user),
         organization |-> unquote(results.host),
         token |-> IF bytoken THEN unquote(qsd[K_token])
                   ELSE IF path # << >> THEN Head(path)
                   ELSE None,
         targets |-> (IF bytoken \/ path = << >> THEN path ELSE Tail(path))
                     \o Z_parse_to(qsd)]

\* the adapter the library builds from a URL: NotifyZulip(**parse_url(url))
Z_from_url(url) ==
    LET results == Z_parse_url(BaseParseUrl(url, FALSE))
    IN  IF ~results.ok THEN NoAdapter ELSE Z_init(results)


\* plugin(**plugin.parse_url(url))
FromUrl(url) ==
    CASE provider = "zulip" -> Z_from_url(url)
      [] provider = "pagerduty" -> PD_from_url(url)
      [] OTHER -> X_from_url(url)

\* adapter.url(privacy)
Url(self, privacy) ==
    CASE provider = "zulip" -> Z_url(self, privacy)
      [] provider = "pagerduty" -> PD_url(self, privacy)
      [] OTHER -> X_url(self, privacy)

-----------------------------------------------------------------------------
(* The inputs explored *)

\* all sequences over S of length lo..hi
SeqsOf(S, lo, hi) == UNION {[1..n -> S] : n \in lo..hi}

T_alice == <<"a","l","i","c","e","@","e","x",".","c","o","m">>

T_bracket == <<"<","b","o","b","@","e","x",".","o","r","g",">">>

T_general == <<"g","e","n","e","r","a","l">>

\* Zulip targets: an e-mail address, one in angle brackets, a stream
TargetPool == {T_alice, T_bracket, T_general}

Token32 == [i \in 1..32 |-> IF i % 2 = 0 THEN "a" ELSE "1"]

Token31 == SubSeq(Token32, 1, 31)

Token33 == Token32 \o <<"z">>

\* a name of n characters
NameOf(n) == [i \in 1..n |-> "n"]

\* the bot names tried: with and without the suffix, with a suffix left
\* after the suffix is taken off, padded, with a space inside, of 28, 32, 33
\* and 34 characters, the suffix alone, empty, with a character outside the
\* class, and a missing one
BotNames ==
    {<<"g","o","o","b","e","r">>, <<"g","o","o","b","e","r","-","b","o","t">>, <<"x","-","b","o","t">>, <<" ","g","o","o","b","e","r"," ">>, <<"g","o","o"," ","b","e","r">>,
     NameOf(28), NameOf(28) \o BotSuffix, NameOf(30), NameOf(30) \o BotSuffix,
     NameOf(33), BotSuffix, << >>, <<"!","b","a","d">>, None}

\* the tokens tried: 32 alphanumeric characters, padded, one short, one too
\* many, with a character that is not alphanumeric, and a missing one
Tokens ==
    {Token32, <<" ">> \o Token32 \o <<" ">>, Token31, Token33,
     [Token32 EXCEPT ![5] = "-"], None}

\* the adapters the fan-out of send() is explored on
ZulipFanOutArgs ==
    [botname : {<<"g","o","o","b","e","r">>},
     organization : {<<"a","p","p","r","i","s","e">>},
     token : {Token32},
     targets : SeqsOf(TargetPool, 0, MaxTargets)]

\* the arguments the validation of __init__ is explored on
ZulipFieldArgs ==
    [botname : BotNames,
     organization : {<<"a","p","p","r","i","s","e">>, <<"a","p","p","r","i","s","e",".","e","x","a","m","p","l","e",".","c","o","m">>},
     token : Tokens,
     targets : {<< >>}]

\* the organizations tried: with and without a hostname, padded, of 32 and
\* of 33 characters, with a character outside the class before the dot, with
\* a dot and nothing after it, empty, and a missing one
Organizations ==
    {<<"a","p","p","r","i","s","e">>, <<"a","p","p","r","i","s","e",".","e","x","a","m","p","l","e",".","c","o","m">>, <<"o","r","g",".","c","u","s","t","o","m","h","o","s","t",".","c","o","m">>,
     <<" ","a","p","p","r","i","s","e",".","e","x","a","m","p","l","e",".","c","o","m"," ">>, NameOf(32), NameOf(33),
     NameOf(33) \o <<".","e","x","a","m","p","l","e",".","c","o","m">>, <<"m","y"," ","o","r","g",".","e","x","a","m","p","l","e",".","c","o","m">>,
     <<"a","p","p","r","i","s","e",".">>, << >>, None}

\* the arguments the organization and the default target are explored on
ZulipOrgArgs ==
    [botname : {<<"g","o","o","b","e","r">>},
     organization : Organizations,
     token : {Token32},
     targets : {<< >>, <<T_general>>, <<T_alice, T_general>>}]

ZulipArgs == ZulipFanOutArgs \cup ZulipFieldArgs \cup ZulipOrgArgs

\* the severity= values tried: omitted, prefixes of the four names in lower,
\* upper and mixed case, and texts that are no prefix of any
SeverityInputs ==
    {None, << >>, <<"i">>, <<"i","n","f","o">>, <<"I","N","F","O">>,
     <<"w","a","r","n">>, <<"e","r","r">>, <<"e","r","r","o","r">>,
     <<"E","R","R","O","R">>, <<"C","r","i","t">>,
     <<"c","r","i","t","i","c","a","l">>, <<"x">>,
     <<"i","n","f","o","s">>, <<"f","a","i","l","u","r","e">>}

\* the region= values tried
RegionInputs ==
    {None, <<"u","s">>, <<"U","S">>, <<"e","u">>, <<"E","u">>, <<"c","a">>,
     << >>, NonText}

ApiKey == <<"a","p","i","k","e","y">>

IntegrationKey == <<"i","n","t","k","e","y">>

\* the arguments source and component are explored on: each given, empty
\* and omitted
PagerDutySourceArgs ==
    [apikey : {ApiKey}, integrationkey : {IntegrationKey},
     source : {None, << >>, <<"s","r","c">>}, component : {None, << >>, <<"c","m","p">>},
     group : {None}, class_id : {None}, click : {None},
     details : {EmptyDict}, include_image : {TRUE},
     region_name : {None}, severity : {None}]

PagerDutyArgs ==
    [apikey : {ApiKey}, integrationkey : {IntegrationKey},
     source : {None}, component : {None},
     group : {None}, class_id : {None}, click : {None},
     details : {EmptyDict}, include_image : {TRUE},
     region_name : RegionInputs, severity : SeverityInputs]
    \cup PagerDutySourceArgs

HostName == <<"h","o","s","t">>

UserName == <<"u","s","e","r">>

PassWord == <<"p","a","s","s">>

\* the adapters send() is explored on: every payload shape, with and without
\* a port
XBMCSendArgs ==
    [host : {HostName},
     port : {NoInt, SomeInt(9090)},
     user : {None}, password : {None},
     secure : BOOLEAN,
     protocol : {xbmc_remote_protocol, kodi_remote_protocol},
     duration : {NoInt, SomeInt(5)},
     include_image : BOOLEAN]

\* the adapters url() is explored on: every port and authentication
XBMCUrlArgs ==
    [host : {HostName},
     port : {NoInt, SomeInt(xbmc_default_port), SomeInt(secure_default_port),
             SomeInt(9090)},
     user : {None, UserName}, password : {None, PassWord},
     secure : BOOLEAN,
     protocol : {xbmc_remote_protocol},
     duration : {NoInt},
     include_image : {TRUE}]

XBMCArgs ==
    [host : {HostName},
     port : {NoInt, SomeInt(xbmc_default_port), SomeInt(secure_default_port),
             SomeInt(9090)},
     user : {None, UserName}, password : {None, PassWord},
     secure : BOOLEAN,
     protocol : {xbmc_remote_protocol, kodi_remote_protocol},
     duration : {NoInt, SomeInt(5)},
     include_image : BOOLEAN]

\* what self.image_url(notify_type) can return
ImageUrl == <<"h","t","t","p",":","/","/","i","m","g">>

ImageUrls == {None, ImageUrl}

-----------------------------------------------------------------------------
(* Construction followed by send() calls *)

Idle ==
    /\ notify_type = "info"
    /\ targets = << >>
    /\ payload = EmptyDict
    /\ has_error = FALSE
    /\ posts = << >>
    /\ ret = NoReturn
    /\ ncalls = 0
    /\ rendered = None
    /\ adapter2 = NoAdapter
    /\ url_privacy = FALSE

Init ==
    /\ \/ provider = "zulip" /\ args \in ZulipArgs
       \/ provider = "pagerduty" /\ args \in PagerDutyArgs
       \/ provider = "xbmc" /\ args \in XBMCArgs
    /\ adapter = NoAdapter
    /\ pc = "new"
    /\ Idle

\* plugin(**a)
InitOf(a) ==
    CASE provider = "zulip" -> Z_init(a)
      [] provider = "pagerduty" -> PD_init(a)
      [] OTHER -> X_init(a)

\* plugin(**args): __init__ runs to its end or raises
Construct ==
    /\ pc = "new"
    /\ adapter' = InitOf(args)
    /\ pc' = IF adapter'.ok THEN "ready" ELSE "failed"
    /\ UNCHANGED <<provider, args, notify_type, targets, payload, has_error,
                   posts, ret, ncalls, rendered, adapter2, url_privacy>>

\* NotifyZulip.send, up to the loop (lines 243-270)
Z_Send ==
    /\ provider = "zulip" /\ pc = "ready" /\ ncalls < MaxSends
    /\ notify_type' = "info"
    /\ has_error' = FALSE
    /\ payload' = [subject |-> Title, content |-> Body, type |-> "unset",
                   to |-> None]
    /\ targets' = adapter.targets
    /\ posts' = << >>
    /\ ret' = NoReturn
    /\ ncalls' = ncalls + 1
    /\ pc' = "loop"
    /\ UNCHANGED <<provider, args, adapter, rendered, adapter2, url_privacy>>

\* NotifyZulip.send, one iteration of the loop (lines 271-335): the target is
\* popped, the payload addressed, the POST made and its outcome recorded
Z_Post ==
    /\ provider = "zulip" /\ pc = "loop" /\ Len(targets) > 0
    /\ \E outcome \in FanOutOutcomes :
         LET target == Head(targets)
             p == [payload EXCEPT !.type = Z_payload_type(payload, target),
                                  !.to = Z_payload_to(payload, target)]
         IN  /\ payload' = p
             /\ posts' = Append(posts, [url |-> Z_notify_url(adapter),
                                        auth |-> Z_auth_user(adapter),
                                        target |-> target,
                                        data |-> p,
                                        outcome |-> outcome])
             /\ has_error' = Z_has_error(has_error, outcome)
             /\ targets' = Z_remaining(targets, outcome)
             /\ adapter' = Z_self_after_pop(adapter,
                                            Z_remaining(targets, outcome))
    /\ UNCHANGED <<provider, args, pc, notify_type, ret, ncalls,
                   rendered, adapter2, url_privacy>>

\* NotifyZulip.send, the loop's exit and the return (line 337)
Z_Return ==
    /\ provider = "zulip" /\ pc = "loop" /\ Len(targets) = 0
    /\ ret' = PyBool(~has_error)
    /\ pc' = "ready"
    /\ UNCHANGED <<provider, args, adapter, notify_type, targets, payload,
                   has_error, posts, ncalls, rendered, adapter2, url_privacy>>

\* NotifyPagerDuty.send (lines 326-441)
PD_Send ==
    /\ provider = "pagerduty" /\ pc = "ready" /\ ncalls < MaxSends
    /\ \E nt \in NotifyTypes, image_url \in ImageUrls, outcome \in Outcomes :
         LET p == PD_payload(adapter, Body, nt, image_url)
         IN  /\ notify_type' = nt
             /\ payload' = p
             /\ posts' = <<[url |-> PD_notify_url(adapter), data |-> p,
                            outcome |-> outcome]>>
             /\ ret' = PyBool(PD_send_result(outcome))
    /\ ncalls' = ncalls + 1
    /\ UNCHANGED <<provider, args, adapter, pc, targets, has_error, rendered,
                   adapter2, url_privacy>>

\* NotifyXBMC.send (lines 235-308)
X_Send ==
    /\ provider = "xbmc" /\ pc = "ready" /\ ncalls < MaxSends
    /\ \E nt \in NotifyTypes, image_url \in ImageUrls, outcome \in Outcomes :
         LET p == X_payload(adapter, Title, Body, nt, image_url)
         IN  /\ notify_type' = nt
             /\ payload' = p
             /\ posts' = <<[url |-> X_post_url(adapter), data |-> p,
                            outcome |-> outcome]>>
             /\ ret' = PyBool(X_send_result(outcome))
    /\ ncalls' = ncalls + 1
    /\ UNCHANGED <<provider, args, adapter, pc, targets, has_error, rendered,
                   adapter2, url_privacy>>

\* adapter.url(privacy), between two send() calls
Render ==
    /\ pc = "ready"
    /\ \E p \in BOOLEAN :
         /\ url_privacy' = p
         /\ rendered' = Url(adapter, p)
    /\ UNCHANGED <<provider, args, adapter, pc, notify_type, targets, payload,
                   has_error, posts, ret, ncalls, adapter2>>

Next ==
    \/ Construct
    \/ Z_Send
    \/ Z_Post
    \/ Z_Return
    \/ PD_Send
    \/ X_Send

Spec == Init /\ [][Next]_vars

-----------------------------------------------------------------------------
(* Construction followed by send() and url() calls in any order *)

\* the Zulip adapters url() is explored on: with and without a hostname, up
\* to two targets
ZulipExportArgs ==
    [botname : {<<"g","o","o","b","e","r">>},
     organization : {<<"a","p","p","r","i","s","e">>, <<"a","p","p","r","i","s","e",".","e","x","a","m","p","l","e",".","c","o","m">>},
     token : {Token32},
     targets : {<< >>, <<T_general>>, <<T_alice, T_general>>,
                <<T_general, T_bracket>>}]

\* the PagerDuty adapters url() is explored on: with and without each
\* optional field
PagerDutyExportArgs ==
    [apikey : {ApiKey}, integrationkey : {IntegrationKey},
     source : {None, <<"s","r","c">>}, component : {None},
     group : {None, <<"g","1">>}, class_id : {None}, click : {None, <<"h","t","t","p",":","/","/","x">>},
     details : {EmptyDict,
                DictOf(<<<<<<"e","n","v">>, <<"p","r","o","d">>>>,
                         <<<<"h","o","s","t">>, <<"n","o","d","e","1">>>>>>)},
     include_image : {TRUE},
     region_name : {None, <<"e","u">>}, severity : {None, <<"e","r","r">>}]

ExportInit ==
    /\ \/ provider = "zulip" /\ args \in ZulipExportArgs
       \/ provider = "pagerduty" /\ args \in PagerDutyExportArgs
       \/ provider = "xbmc" /\ args \in XBMCSendArgs \cup XBMCUrlArgs
    /\ adapter = NoAdapter
    /\ pc = "new"
    /\ Idle

ExportNext ==
    \/ Next
    \/ Render

SpecExport == ExportInit /\ [][ExportNext]_vars

-----------------------------------------------------------------------------
(* Properties of send() *)

\* a POST that came back with status 200
Ok200(post) == ~post.outcome.exc /\ post.outcome.status_code = 200

\* a send() call has returned
Returned == pc = "ready" /\ ret # NoReturn

\* C1: NotifyZulip.send returns true if and only if every target of the
\* adapter's list was POSTed to and every one of these POSTs came back with
\* status 200; one failed target (another status, a transport exception)
\* makes it return false, whatever the others did.
C1_ZulipAllOrFalse ==
    (provider = "zulip" /\ Returned) =>
        (ret = "True" <=>
            /\ Len(posts) = Len(adapter.targets)
            /\ \A i \in 1..Len(posts) : Ok200(posts[i]))

\* C1 witness: a call over three targets returned false although the first
\* and the last POST succeeded
C1_Witness ==
    /\ provider = "zulip" /\ Returned /\ ret = "False"
    /\ Len(posts) = 3
    /\ Ok200(posts[1]) /\ ~Ok200(posts[2]) /\ Ok200(posts[3])

\* C2: NotifyZulip.send POSTs once per entry of the adapter's target list,
\* in the list's order: at every point of the loop the POSTs made are those
\* for the first entries and the entries left are the rest of the list, so a
\* failure never skips a later target and no target is tried twice; the work
\* left shrinks with every POST, and when send has returned there is exactly
\* one POST per entry.
C2_ZulipOnePostPerTargetInOrder ==
    (provider = "zulip" /\ (pc = "loop" \/ Returned)) =>
        /\ Len(posts) <= Len(adapter.targets)
        /\ \A i \in 1..Len(posts) : posts[i].target = adapter.targets[i]
        /\ pc = "loop" =>
             /\ targets = SubSeq(adapter.targets, Len(posts) + 1,
                                 Len(adapter.targets))
             /\ Len(targets) = Len(adapter.targets) - Len(posts)
        /\ Returned => Len(posts) = Len(adapter.targets)

\* C2 witness: a call over three targets returned after three POSTs, the
\* first of them failed by an exception and the second by its status
C2_Witness ==
    /\ provider = "zulip" /\ Returned
    /\ Len(adapter.targets) = 3 /\ Len(posts) = 3
    /\ posts[1].outcome.exc
    /\ ~posts[2].outcome.exc /\ posts[2].outcome.status_code = 500

\* C3: every POST of NotifyZulip.send has type "private" and "to" the e-mail
\* address when its target parses as an e-mail, and type "stream" and "to"
\* the target itself otherwise, whatever the targets before it were.
C3_ZulipPayloadPerTarget ==
    provider = "zulip" =>
        \A i \in 1..Len(posts) :
            LET t == posts[i].target
                mail == is_email(t)
            IN  /\ mail.matched =>
                     /\ posts[i].data.type = "private"
                     /\ posts[i].data.to = mail.full_email
                /\ ~mail.matched =>
                     /\ posts[i].data.type = "stream"
                     /\ posts[i].data.to = t

\* C3 witness: an e-mail target followed by a stream gave a private message
\* and then a stream message
C3_Witness ==
    /\ provider = "zulip" /\ Len(posts) >= 2
    /\ posts[1].target = T_alice /\ posts[1].data.type = "private"
    /\ posts[1].data.to = T_alice
    /\ posts[2].target = T_general /\ posts[2].data.type = "stream"
    /\ posts[2].data.to = T_general

\* C4: send returns a boolean for every outcome of the POST: for PagerDuty
\* true exactly for status 200, 201 or 202; for Kodi/XBMC and for Zulip with
\* one target true exactly for status 200; false for every other status and
\* for a transport exception.
C4_SendResultFromResponse ==
    (Returned /\ Len(posts) = 1) =>
        LET o == posts[1].outcome
        IN  /\ ret \in {"True", "False"}
            /\ provider = "pagerduty" =>
                 (ret = "True" <=> (~o.exc /\ o.status_code \in {200, 201, 202}))
            /\ provider \in {"xbmc", "zulip"} =>
                 (ret = "True" <=> (~o.exc /\ o.status_code = 200))

\* C4 witness: a PagerDuty send whose POST came back 202 returned true
C4_Witness ==
    /\ provider = "pagerduty" /\ Returned /\ Len(posts) = 1
    /\ ~posts[1].outcome.exc /\ posts[1].outcome.status_code = 202
    /\ ret = "True"

\* C5: the severity of the PagerDuty payload is the adapter's override
\* severity when one is configured, for every notify type; otherwise it is
\* info for info and success, warning for warning and critical for failure.
C5_PayloadSeverity ==
    (provider = "pagerduty" /\ Returned) =>
        LET sev == posts[1].data.payload.severity
        IN  IF adapter.severity # None
            THEN sev = adapter.severity
            ELSE sev = CASE notify_type = "info" -> <<"i","n","f","o">>
                         [] notify_type = "success" -> <<"i","n","f","o">>
                         [] notify_type = "warning" -> <<"w","a","r","n","i","n","g">>
                         [] notify_type = "failure" ->
                                <<"c","r","i","t","i","c","a","l">>

\* C5 witness: an adapter configured with severity error sent a success
\* notification with severity error
C5_Witness ==
    /\ provider = "pagerduty" /\ Returned
    /\ adapter.severity = <<"e","r","r","o","r">>
    /\ notify_type = "success"
    /\ posts[1].data.payload.severity = <<"e","r","r","o","r">>

-----------------------------------------------------------------------------
(* Properties of NotifyPagerDuty.__init__ *)

\* the four severity names in the order the specification gives them
SeverityNames ==
    << <<"i","n","f","o">>, <<"w","a","r","n","i","n","g">>,
       <<"e","r","r","o","r">>, <<"c","r","i","t","i","c","a","l">> >>

\* the first severity name the text is a prefix of when case is ignored, 0
\* when there is none
FirstPrefixed(text) ==
    LET hits == {i \in 1..Len(SeverityNames) :
                    StartsWith(SeverityNames[i], Lower(text))}
    IN  IF hits = {} THEN 0 ELSE CHOOSE i \in hits : \A j \in hits : i <= j

\* the region is one __init__ accepts
RegionGiven ==
    args.region_name \in {None, <<"u","s">>, <<"U","S">>, <<"e","u">>, <<"E","u">>}

\* C6: with the other arguments valid, a given severity that is, ignoring
\* case, a prefix of one of info, warning, error, critical is stored as the
\* first such name; a given severity matching none makes construction fail;
\* an omitted severity leaves the override unset.
C6_SeverityPrefixIgnoringCase ==
    (provider = "pagerduty" /\ pc # "new" /\ RegionGiven) =>
        IF args.severity = None
        THEN adapter.ok /\ adapter.severity = None
        ELSE IF FirstPrefixed(args.severity) = 0
        THEN ~adapter.ok
        ELSE /\ adapter.ok
             /\ adapter.severity = SeverityNames[FirstPrefixed(args.severity)]

\* C7: an omitted region becomes us, a region that is us or eu in any case
\* is stored lower-cased, every other value makes construction fail; so a
\* constructed adapter has region us or eu, and send POSTs to
\* events.pagerduty.com for us and to events.eu.pagerduty.com for eu.
C7_RegionResolved ==
    (provider = "pagerduty" /\ pc # "new") =>
        /\ ~RegionGiven => ~adapter.ok
        /\ (RegionGiven /\ args.severity = None) => adapter.ok
        /\ adapter.ok =>
             /\ adapter.region_name =
                  (IF args.region_name \in {<<"e","u">>, <<"E","u">>}
                   THEN <<"e","u">> ELSE <<"u","s">>)
             /\ \A i \in 1..Len(posts) :
                  posts[i].url =
                    (IF adapter.region_name = <<"e","u">> THEN HostEU ELSE HostUS)

\* C7 witness: region "Eu" gave an adapter of region eu whose send POSTed to
\* events.eu.pagerduty.com
C7_Witness ==
    /\ provider = "pagerduty" /\ Returned
    /\ args.region_name = <<"E","u">>
    /\ adapter.region_name = <<"e","u">>
    /\ posts[1].url = HostEU

-----------------------------------------------------------------------------
(* The URLs explored *)

\* the URL made of a head and of the query parts that are not empty
UrlOf(head, parts) ==
    LET query == Join(parts, <<"&">>)
    IN  IF query = << >> THEN head ELSE head \o <<"?">> \o query

\* the query +env=prod&+host=node1
DetailsQuery == <<"+","e","n","v","=","p","r","o","d","&","+","h","o","s","t","=","n","o","d","e","1">>

PagerDutyUrls ==
    {UrlOf(<<"p","a","g","e","r","d","u","t","y",":","/","/","i","n","t","k","e","y","@","a","p","i","k","e","y">> \o path,
           <<apikey, posq, region, severity, click, grp, details, image>>) :
        path \in {<< >>, <<"/","s","r","c">>, <<"/","s","r","c","/","c","m","p">>, <<"/","s","%","3","A","1","/","c","%","2","0","2">>},
        apikey \in {<< >>, <<"a","p","i","k","e","y","=","K","2">>,
                    <<"a","p","i","k","e","y","=","&","i","n","t","e","g","r","a","t","i","o","n","k","e","y","=","I","2">>},
        posq \in {<< >>, <<"s","o","u","r","c","e","=","q","s">>, <<"c","o","m","p","o","n","e","n","t","=","q","c">>,
                  <<"s","o","u","r","c","e","=","q","s","&","c","o","m","p","o","n","e","n","t","=","q","c">>},
        region \in {<< >>, <<"r","e","g","i","o","n","=","E","U">>, <<"r","e","g","i","o","n","=","c","a">>},
        severity \in {<< >>, <<"s","e","v","e","r","i","t","y","=","e","r","r">>, <<"s","e","v","e","r","i","t","y","=","b","a","d">>},
        click \in {<< >>, <<"c","l","i","c","k","=","h","t","t","p","%","3","A","%","2","F","%","2","F","x","%","3","F","a","%","3","D","b">>},
        grp \in {<< >>, <<"g","r","o","u","p","=","g","1","&","c","l","a","s","s","=","c","1">>},
        details \in {<< >>, DetailsQuery, <<"+","e","n","v","=","d","e","v">>},
        image \in {<< >>, <<"i","m","a","g","e","=","n","o">>}}

XBMCUrls ==
    {UrlOf(schema \o <<":","/","/">> \o auth \o HostName \o port,
           <<image, duration>>) :
        schema \in {<<"x","b","m","c">>, <<"x","b","m","c","s">>, <<"k","o","d","i">>, <<"k","o","d","i","s">>},
        auth \in {<< >>, <<"u","s","e","r","@">>, <<"u","s","e","r",":","p","a","s","s","@">>},
        port \in {<< >>, <<":","4","4","3">>, <<":","8","0","8","0">>, <<":","9","0","9","0">>},
        image \in {<< >>, <<"i","m","a","g","e","=","n","o">>},
        duration \in {<< >>, <<"d","u","r","a","t","i","o","n","=","5">>, <<"d","u","r","a","t","i","o","n","=","0">>, <<"d","u","r","a","t","i","o","n","=","-","3">>,
                      <<"d","u","r","a","t","i","o","n","=","a","b","c">>}}

ZulipUrls ==
    {UrlOf(<<"z","u","l","i","p",":","/","/">> \o botname \o <<"@">> \o org \o path, <<token, to>>) :
        botname \in {<<"g","o","o","b","e","r">>, <<"g","o","o","b","e","r","-","b","o","t">>},
        org \in {<<"a","p","p","r","i","s","e">>, <<"a","p","p","r","i","s","e",".","e","x","a","m","p","l","e",".","c","o","m">>},
        path \in {<< >>, <<"/">> \o Token32,
                  <<"/">> \o Token32 \o <<"/","g","e","n","e","r","a","l">>,
                  <<"/">> \o Token32 \o <<"/","g","e","n","e","r","a","l","/","a","l","i","c","e","%","4","0","e","x",".","o","r","g">>,
                  <<"/","g","e","n","e","r","a","l","/","s","t","r","e","a","m","2">>,
                  <<"/">> \o Token31 \o <<"/","g","e","n","e","r","a","l">>,
                  <<"/">> \o Token33,
                  <<"/">> \o [Token32 EXCEPT ![5] = "-"] \o <<"/","g","e","n","e","r","a","l">>},
        token \in {<< >>, <<"t","o","k","e","n","=">> \o Token32},
        to \in {<< >>, <<"t","o","=","s","3",",","b","o","b","%","4","0","e","x",".","o","r","g">>, <<"t","o","=","%","2","3","s","4","%","2","0","s","5">>}}

-----------------------------------------------------------------------------
(* A URL parsed, the adapter built, its url() rendered and parsed again *)

UrlInit ==
    /\ \/ provider = "zulip" /\ args \in ZulipUrls
       \/ provider = "pagerduty" /\ args \in PagerDutyUrls
       \/ provider = "xbmc" /\ args \in XBMCUrls
    /\ adapter = NoAdapter
    /\ pc = "url"
    /\ Idle

\* the adapter is built from the URL, or parse_url or __init__ fails
U_Construct ==
    /\ pc = "url"
    /\ adapter' = FromUrl(args)
    /\ pc' = IF adapter'.ok THEN "built" ELSE "failed"
    /\ UNCHANGED <<provider, args, notify_type, targets, payload, has_error,
                   posts, ret, ncalls, rendered, adapter2, url_privacy>>

\* adapter.url(privacy=False)
U_Url ==
    /\ pc = "built"
    /\ rendered' = Url(adapter, FALSE)
    /\ pc' = "rendered"
    /\ UNCHANGED <<provider, args, adapter, notify_type, targets, payload,
                   has_error, posts, ret, ncalls, adapter2, url_privacy>>

\* a second adapter is built from the rendered URL
U_Reparse ==
    /\ pc = "rendered"
    /\ adapter2' = FromUrl(rendered)
    /\ pc' = "reparsed"
    /\ UNCHANGED <<provider, args, adapter, notify_type, targets, payload,
                   has_error, posts, ret, ncalls, rendered, url_privacy>>

\* one send() call on the adapter built from the URL
U_Send ==
    /\ pc = "built" /\ provider \in {"pagerduty", "xbmc"}
    /\ \E nt \in NotifyTypes, image_url \in ImageUrls, outcome \in FanOutOutcomes :
         LET p == IF provider = "pagerduty"
                  THEN PD_payload(adapter, Body, nt, image_url)
                  ELSE X_payload(adapter, Title, Body, nt, image_url)
             u == IF provider = "pagerduty" THEN PD_notify_url(adapter)
                  ELSE X_post_url(adapter)
         IN  /\ notify_type' = nt
             /\ payload' = p
             /\ posts' = <<[url |-> u, data |-> p, outcome |-> outcome]>>
             /\ ret' = PyBool(IF provider = "pagerduty"
                              THEN PD_send_result(outcome)
                              ELSE X_send_result(outcome))
    /\ ncalls' = ncalls + 1
    /\ pc' = "sent"
    /\ UNCHANGED <<provider, args, adapter, targets, has_error, rendered,
                   adapter2, url_privacy>>

UrlNext ==
    \/ U_Construct
    \/ U_Url
    \/ U_Reparse
    \/ U_Send

SpecUrl == UrlInit /\ [][UrlNext]_vars

-----------------------------------------------------------------------------
(* Properties of url() and parse_url() *)

ConnectPort(post_url) ==
    IF post_url.port # NoInt THEN post_url.port[1]
    ELSE IF post_url.schema = <<"h","t","t","p","s">> THEN 443
    ELSE 80

\* C9: for every Kodi/XBMC adapter built from a URL, the adapter built from
\* the URL that url(privacy=False) renders equals it in host, port, user,
\* password, secure, protocol version, duration and include_image, and both
\* POST to the same scheme, host and port.
C9_KodiRoundTrip ==
    (provider = "xbmc" /\ pc = "reparsed") =>
        /\ adapter2.ok
        /\ adapter2.host = adapter.host
        /\ adapter2.port = adapter.port
        /\ adapter2.user = adapter.user
        /\ adapter2.password = adapter.password
        /\ adapter2.secure = adapter.secure
        /\ adapter2.protocol = adapter.protocol
        /\ adapter2.duration = adapter.duration
        /\ adapter2.include_image = adapter.include_image
        /\ X_post_url(adapter2).schema = X_post_url(adapter).schema
        /\ X_post_url(adapter2).host = X_post_url(adapter).host
        /\ ConnectPort(X_post_url(adapter2)) = ConnectPort(X_post_url(adapter))

U_xbmcs_host == <<"x","b","m","c","s",":","/","/","h","o","s","t">>

U_kodi_host_9090 == <<"k","o","d","i",":","/","/","h","o","s","t",":","9","0","9","0">>

\* C10: the adapter built from xbmcs://host is secure with protocol version
\* 2 and its rendered URL carries no port; the adapter built from
\* kodi://host:9090 has protocol version 6 and its rendered URL carries the
\* port 9090; for every URL the scheme prefix xbmc gives version 2 and kodi
\* version 6, and a trailing s gives secure.
C10_SchemeSelectsVersionAndSecure ==
    (provider = "xbmc" /\ pc \in {"rendered", "reparsed"}) =>
        LET schema == SubSeq(args, 1, FindFrom(args, <<":","/","/">>, 1) - 1)
        IN  /\ adapter.protocol = (IF SubSeq(schema, 1, 4) = <<"x","b","m","c">> THEN 2 ELSE 6)
            /\ adapter.secure = (schema[Len(schema)] = "s")
            /\ args = U_xbmcs_host =>
                 /\ adapter.secure /\ adapter.protocol = 2
                 /\ StartsWith(rendered, <<"x","b","m","c","s",":","/","/","h","o","s","t","/","?">>)
            /\ args = U_kodi_host_9090 =>
                 /\ adapter.protocol = 6
                 /\ StartsWith(rendered, <<"k","o","d","i",":","/","/","h","o","s","t",":","9","0","9","0","/","?">>)

\* the URL the adapter was built from gives no port
NoPortGiven == BaseParseUrl(args, TRUE).port = NoInt

\* C11: when the Kodi/XBMC URL gives no port, send POSTs over https to port
\* 443 for a secure scheme and over http to port 8080 for a non-secure one,
\* and the port it connects to is the port url_identifier reports.
C11_SendDefaultPort ==
    (provider = "xbmc" /\ pc = "sent" /\ NoPortGiven) =>
        LET post == posts[1].url
        IN  /\ post.schema = (IF adapter.secure THEN <<"h","t","t","p","s">>
                              ELSE <<"h","t","t","p">>)
            /\ ConnectPort(post) = (IF adapter.secure THEN secure_default_port
                                    ELSE xbmc_default_port)
            /\ ConnectPort(post) = X_url_identifier(adapter).port

\* an adapter has been built from the URL
Built == pc \in {"built", "sent", "rendered", "reparsed"}

\* C12: every Kodi/XBMC adapter built from a URL has a duration of at least
\* 1, whatever the duration query parameter is; the duration is 12 when the
\* parameter is absent or no integer, and the displaytime sent is the
\* duration times 1000.
C12_DurationAtLeastOne ==
    (provider = "xbmc" /\ Built) =>
        LET given == TextToInt(DictGet(BaseParseUrl(args, TRUE).qsd, K_duration))
        IN  /\ adapter.duration # NoInt
            /\ adapter.duration[1] >= duration_min
            /\ given = NoInt => adapter.duration = SomeInt(duration_default)
            /\ pc = "sent" =>
                 posts[1].data.params.displaytime = adapter.duration[1] * 1000

-----------------------------------------------------------------------------
(* Properties of NotifyZulip.__init__ *)

\* a bot name that consists of 1 to 32 characters of [A-Za-z0-9_-]
ValidName(n) == n # None /\ Len(n) \in 1..32 /\ Range(n) \subseteq NameChars

\* the adapter built with the suffix appended to the bot name
WithSuffix == Z_init([args EXCEPT !.botname = args.botname \o BotSuffix])

\* constructing with the bot name and with the bot name followed by "-bot"
\* gives the same stored name, the same user of the HTTP Basic
\* authentication, <name>-bot@<org>.<hostname>, in every POST made, and the
\* same URL
SuffixIgnored ==
    /\ adapter.ok /\ WithSuffix.ok
    /\ WithSuffix.botname = adapter.botname
    /\ adapter.botname = args.botname
    /\ Z_auth_user(adapter) = args.botname \o BotSuffix \o <<"@">>
            \o adapter.organization \o <<".">> \o adapter.hostname
    /\ Z_auth_user(WithSuffix) = Z_auth_user(adapter)
    /\ \A i \in 1..Len(posts) : posts[i].auth = Z_auth_user(WithSuffix)
    /\ Z_url(WithSuffix, FALSE) = Z_url(adapter, FALSE)

\* __init__ accepts the organization given
OrganizationAccepted ==
    args.organization # None /\ VALIDATE_ORG(Strip(args.organization)).matched

\* C13 as stated: for every valid bot name n, constructing with n and with
\* n followed by "-bot" stores the same bot name, gives the same user
\* "<n>-bot@<org>.<hostname>" of the HTTP Basic authentication in send and
\* renders the same URL.
C13_SuffixIgnoredForEveryName ==
    (provider = "zulip" /\ pc # "new" /\ ValidName(args.botname)
        /\ OrganizationAccepted
        /\ ValidateToken(args.token) # None) => SuffixIgnored

\* C13, amended: the same, for every valid bot name n of at most 28
\* characters that does not itself end in "-bot".
C13_SuffixIgnored ==
    (provider = "zulip" /\ pc # "new" /\ ValidName(args.botname)
        /\ OrganizationAccepted
        /\ ValidateToken(args.token) # None
        /\ Len(args.botname) <= 32 - Len(BotSuffix)
        /\ ~EndsWith(args.botname, BotSuffix)) => SuffixIgnored

\* C13 witness: send has POSTed for an adapter built with a 28-character
\* name, which the 32-character name with the suffix builds as well
C13_Witness ==
    /\ provider = "zulip" /\ pc = "ready" /\ Len(posts) > 0
    /\ args.botname = NameOf(28)
    /\ adapter.botname = NameOf(28)
    /\ WithSuffix.botname = NameOf(28)
    /\ posts[1].auth = Z_auth_user(WithSuffix)

\* C14: NotifyZulip construction fails, producing no adapter, for every
\* bot name that after trimming does not consist entirely of 1 to 32
\* characters of [A-Za-z0-9_-]: a name with a space between valid
\* characters and a name longer than 32 characters among them.
C14_InvalidBotnameFails ==
    (provider = "zulip" /\ pc # "new"
        /\ (args.botname = None \/ ~ValidName(Strip(args.botname)))) =>
        (pc = "failed" /\ ~adapter.ok)

\* what NotifyZulip.parse_url makes of the URL
ZulipParsed == Z_parse_url(BaseParseUrl(args, FALSE))

\* a token of exactly 32 alphanumeric characters
ValidToken(t) == t # None /\ Len(t) = 32 /\ Range(t) \subseteq AlnumChars

-----------------------------------------------------------------------------
(* Properties of url(privacy=True) and of the adapter across calls *)

\* another value for a secret field
OtherSecret == <<"o","t","h","e","r">>

OtherToken == [i \in 1..32 |-> "b"]

\* the adapters that differ from self in one secret field only
SecretVariants(self) ==
    CASE provider = "zulip" -> {[self EXCEPT !.token = OtherToken]}
      [] provider = "pagerduty" ->
            {[self EXCEPT !.apikey = OtherSecret],
             [self EXCEPT !.integration_key = OtherSecret]}
      [] OTHER ->
            IF Truthy(self.password)
            THEN {[self EXCEPT !.password = OtherSecret]}
            ELSE {}

\* the secret fields as the redacted URL u shows them
ShownSecrets(u) ==
    LET r == BaseParseUrl(u, FALSE)
    IN  CASE provider = "zulip" -> {Head(split_path(r.fullpath))}
          [] provider = "pagerduty" -> {r.user, r.host}
          [] OTHER -> IF adapter.user # None /\ Truthy(adapter.password)
                      THEN {r.password} ELSE {}

\* two URLs of the same structure: the same scheme, port and query keys,
\* as many path segments, a user and a password in both or in neither
SameStructure(u, v) ==
    LET a == BaseParseUrl(u, FALSE)
        b == BaseParseUrl(v, FALSE)
    IN  /\ a.ok /\ b.ok
        /\ a.schema = b.schema /\ a.port = b.port
        /\ (a.user = None) = (b.user = None)
        /\ (a.password = None) = (b.password = None)
        /\ Len(split_path(a.fullpath)) = Len(split_path(b.fullpath))
        /\ DOMAIN a.qsd = DOMAIN b.qsd

\* C16: in the URL url(privacy=True) renders, every secret field (PagerDuty
\* apikey and integration key, Kodi password, Zulip token) is replaced by a
\* fixed redaction token that does not depend on the secret: the adapters
\* that differ in a secret field only render the identical redacted URL, and
\* the redacted URL has the structure of the unredacted one.
C16_RedactionIndependentOfSecret ==
    (pc \in {"ready", "loop"} /\ rendered # None /\ url_privacy) =>
        /\ \A other \in SecretVariants(adapter) : Url(other, TRUE) = rendered
        /\ ShownSecrets(rendered) \subseteq {RedactionToken}
        /\ SameStructure(rendered, Url(adapter, FALSE))

-----------------------------------------------------------------------------
(* Properties of NotifyPagerDuty.parse_url followed by send() *)

\* the payload of the one POST of a send()
Posted == posts[1].data

\* {"env": "prod", "host": "node1"}
EnvProdHostNode1 ==
    DictOf(<<<<<<"e","n","v">>, <<"p","r","o","d">>>>,
             <<<<"h","o","s","t">>, <<"n","o","d","e","1">>>>>>)

\* the URL carries the query +env=prod&+host=node1
HasDetailsQuery ==
    \E k \in 1..(Len(args) - Len(DetailsQuery) + 1) :
        /\ args[k] = "+"
        /\ SubSeq(args, k, k + Len(DetailsQuery) - 1) = DetailsQuery

\* the map of the +-prefixed query keys of the URL
PlusKeys(url) ==
    LET plus == BaseParseUrl(url, FALSE).qsdplus
    IN  [k \in {unquote(x) : x \in DOMAIN plus} |->
            unquote(plus[CHOOSE x \in DOMAIN plus : unquote(x) = k])]

\* C18: a PagerDuty URL with the query +env=prod&+host=node1 gives a send
\* payload whose payload.custom_details is {"env": "prod", "host": "node1"};
\* custom_details is the map of the +-prefixed query keys, and the optional
\* keys custom_details, group, class and links are in the payload exactly
\* when the value configured for them is not empty.
C18_CustomDetails ==
    (provider = "pagerduty" /\ pc = "sent") =>
        LET plus == PlusKeys(args)
            top  == DOMAIN Posted
            keys == DOMAIN Posted.payload
        IN  /\ HasDetailsQuery =>
                   /\ "custom_details" \in keys
                   /\ Posted.payload.custom_details = EnvProdHostNode1
            /\ ("custom_details" \in keys) = (plus # EmptyDict)
            /\ "custom_details" \in keys =>
                   Posted.payload.custom_details = plus
            /\ ("group" \in keys) = Truthy(adapter.group)
            /\ "group" \in keys => Posted.payload.group = adapter.group
            /\ ("class" \in keys) = Truthy(adapter.class_id)
            /\ "class" \in keys => Posted.payload.class = adapter.class_id
            /\ ("links" \in top) = Truthy(adapter.click)
            /\ "links" \in top => Posted.links = <<[href |-> adapter.click]>>

\* a send() from a URL with the two details, a group, a class and a click
C18_Witness ==
    /\ provider = "pagerduty" /\ pc = "sent"
    /\ HasDetailsQuery
    /\ Posted.payload.custom_details = EnvProdHostNode1
    /\ {"group", "class"} \subseteq DOMAIN Posted.payload
    /\ "links" \in DOMAIN Posted

\* NotifyPagerDuty.parse_url(args)
PagerDutyParsed == PD_parse_url(BaseParseUrl(args, FALSE))

\* the non-empty value the query of the URL gives for key k, or None
QueryValue(k) ==
    LET qsd == BaseParseUrl(args, FALSE).qsd
    IN  IF k \in DOMAIN qsd /\ qsd[k] # << >> THEN unquote(qsd[k]) ELSE None

\* the i-th segment of the path of the URL, or None
PathSegment(i) ==
    LET path == split_path(BaseParseUrl(args, FALSE).fullpath)
    IN  IF i <= Len(path) THEN path[i] ELSE None

\* C19: in NotifyPagerDuty.parse_url a non-empty query value for apikey,
\* integrationkey, source or component takes precedence over the host, the
\* userinfo and the path; the path segments are consumed left to right only
\* for the fields the query does not supply: without a query value the first
\* segment is the source and the second the component, and with the source
\* supplied by the query the first segment is the component.
C19_QueryPrecedence ==
    (provider = "pagerduty" /\ pc = "built") =>
        LET r  == BaseParseUrl(args, FALSE)
            q  == PagerDutyParsed
            qa == QueryValue(K_apikey)
            qi == QueryValue(K_integrationkey)
            qs == QueryValue(K_source)
            qc == QueryValue(K_component)
        IN  /\ q.apikey = IF qa # None THEN qa ELSE unquote(r.host)
            /\ q.integrationkey = IF qi # None THEN qi ELSE unquote(r.user)
            /\ q.source = IF qs # None THEN qs ELSE PathSegment(1)
            /\ q.component = IF qc # None THEN qc
                              ELSE IF qs # None THEN PathSegment(1)
                              ELSE PathSegment(2)

\* the source comes from the query and the first path segment is the component
C19_Witness ==
    /\ provider = "pagerduty" /\ pc = "built"
    /\ QueryValue(K_source) = <<"q","s">> /\ QueryValue(K_component) = None
    /\ PathSegment(1) = <<"s","r","c">>
    /\ adapter.source = <<"q","s">> /\ adapter.component = <<"s","r","c">>

-----------------------------------------------------------------------------
(* Properties of NotifyZulip.parse_url *)

\* the entries of the to= value of the URL, written out for the values the
\* URLs explored carry
ToEntries ==
    IF FindFrom(args, <<"t","o","=","s","3",",","b","o","b","%","4","0","e","x",".","o","r","g">>, 1) > 0
    THEN <<<<"s","3">>, <<"b","o","b","@","e","x",".","o","r","g">>>>
    ELSE IF FindFrom(args, <<"t","o","=","%","2","3","s","4","%","2","0","s","5">>, 1) > 0
    THEN <<<<"s","4">>, <<"s","5">>>>
    ELSE << >>

\* the segments of the path of the URL
PathSegments == split_path(BaseParseUrl(args, FALSE).fullpath)

\* C20: in NotifyZulip.parse_url, without a non-empty token= query the first
\* path segment is the token and the segments after it, in order, are the
\* targets; with one, it is the token and every path segment, the first
\* included, is a target; the entries of a to= value, split on the delimiter
\* set, come after the targets of the path.
C20_TokenThenTargets ==
    (provider = "zulip" /\ pc \in {"built", "failed"}) =>
        LET q == ZulipParsed
        IN  IF QueryValue(K_token) # None
            THEN /\ q.token = QueryValue(K_token)
                 /\ q.targets = PathSegments \o ToEntries
            ELSE IF PathSegments # << >>
            THEN /\ q.token = Head(PathSegments)
                 /\ q.targets = Tail(PathSegments) \o ToEntries
            ELSE /\ q.token = None
                 /\ q.targets = ToEntries

\* a URL with token=, two path segments and a to= value of two entries, and
\* the adapter built from it
C20_Witness ==
    /\ provider = "zulip" /\ pc = "built"
    /\ QueryValue(K_token) = Token32
    /\ ZulipParsed.targets = <<T_general, <<"s","t","r","e","a","m","2">>,
                               <<"s","4">>, <<"s","5">>>>

-----------------------------------------------------------------------------
(* Properties of the NotifyXBMC payload *)

\* a payload without its top-level "type"
WithoutType(p) == [k \in DOMAIN p \ {"type"} |-> p[k]]

\* the adapter with the other protocol version
OtherVersion(self) ==
    [self EXCEPT !.protocol = IF self.protocol = xbmc_remote_protocol
                              THEN kodi_remote_protocol
                              ELSE xbmc_remote_protocol]

\* the values self.image_url() can have returned for the payload sent
ImageUrlsOf(p) ==
    {u \in ImageUrls : X_payload(adapter, Title, Body, notify_type, u) = p}

\* C21: a version 2 (xbmc) payload has no top-level "type"; a version 6
\* (kodi) payload has one exactly when an image URL is attached (the image
\* enabled and resolved), and it is "error" for the notify type failure,
\* "warning" for warning and "info" for info and success; apart from "type"
\* the payloads of the two versions are identical for the same inputs.
C21_PayloadShapeFollowsVersion ==
    (provider = "xbmc" /\ pc = "ready" /\ ncalls > 0) =>
        LET attached == "image" \in DOMAIN payload.params
        IN  /\ attached => adapter.include_image /\ Truthy(payload.params.image)
            /\ adapter.protocol = xbmc_remote_protocol =>
                   "type" \notin DOMAIN payload
            /\ adapter.protocol = kodi_remote_protocol =>
                   /\ ("type" \in DOMAIN payload) = attached
                   /\ attached =>
                          payload.type =
                             CASE notify_type = "failure" -> "error"
                               [] notify_type = "warning" -> "warning"
                               [] notify_type \in {"info", "success"} -> "info"
            /\ ImageUrlsOf(payload) # {}
            /\ \A u \in ImageUrlsOf(payload) :
                   WithoutType(X_payload(OtherVersion(adapter), Title, Body,
                                         notify_type, u))
                      = WithoutType(payload)

\* a version 6 payload sent with an image for the notify type failure
C21_Witness ==
    /\ provider = "xbmc" /\ pc = "ready" /\ ncalls > 0
    /\ adapter.protocol = kodi_remote_protocol
    /\ notify_type = "failure"
    /\ "image" \in DOMAIN payload.params
    /\ payload.type = "error"

-----------------------------------------------------------------------------
(* Properties of the adapters NotifyZulip.__init__ builds *)

\* the organization text split at its first dot: what is before it, and what
\* is after it or the default hostname when there is no dot or nothing after
FirstDotSplit(text) ==
    LET t == Strip(text)
        c == Cut(t, ".")
    IN  [org |-> c.before,
         hostname |-> IF c.after = << >> THEN default_hostname ELSE c.after]

\* C22: construction splits the organization string at its first dot into
\* organization and hostname, the hostname being zulipchat.com when there is
\* no suffix; the targets are ["general"] when none is given, so that every
\* adapter built has a target; send POSTs to
\* https://{organization}.{hostname}/api/v1/messages.
C22_OrganizationSplitAtFirstDot ==
    (provider = "zulip" /\ pc \in {"ready", "loop"}) =>
        LET split == FirstDotSplit(args.organization)
        IN  /\ adapter.organization = split.org
            /\ adapter.hostname = split.hostname
            /\ adapter.targets # << >>
            /\ args.targets = << >> =>
                   adapter.targets = <<default_notification_stream>>
            /\ \A i \in 1..Len(posts) :
                   posts[i].url = <<"h","t","t","p","s",":","/","/">> \o split.org \o <<".">>
                                     \o split.hostname \o <<"/","a","p","i","/","v","1","/","m","e","s","s","a","g","e","s">>

\* C23: every adapter NotifyZulip construction produces has a stored bot
\* name of 1 to 32 characters of [A-Za-z0-9_-]; taking the "-bot" suffix off
\* never leaves an empty name (as for the input "-bot"), and the user of the
\* HTTP Basic authentication in send never begins with "-bot@".
C23_StoredBotnameNotEmpty ==
    (provider = "zulip" /\ pc \in {"ready", "loop"}) =>
        /\ ValidName(adapter.botname)
        /\ ~StartsWith(Z_auth_user(adapter), BotSuffix \o <<"@">>)
        /\ \A i \in 1..Len(posts) :
               ~StartsWith(posts[i].auth, BotSuffix \o <<"@">>)

-----------------------------------------------------------------------------
(* Properties of the source and component of NotifyPagerDuty *)

\* C24: after NotifyPagerDuty construction the source is the given source or
\* the default "Apprise" and the component the given component or the
\* default "Notification", for the four combinations of source and component
\* given or omitted; an omitted source never makes the component "Apprise",
\* in the adapter built or in the payload send builds.
C24_SourceAndComponentIndependent ==
    (provider = "pagerduty" /\ pc = "ready") =>
        /\ adapter.source = IF Truthy(args.source) THEN Strip(args.source)
                            ELSE default_source
        /\ adapter.component =
               IF Truthy(args.component) THEN Strip(args.component)
               ELSE default_component
        /\ ~Truthy(args.source) => adapter.component # default_source
        /\ ncalls > 0 =>
               /\ payload.payload.source = adapter.source
               /\ payload.payload.component = adapter.component
               /\ ~Truthy(args.source) =>
                      payload.payload.component # default_source

\* source and component both omitted, the adapter built and a payload sent
C24_Witness ==
    /\ provider = "pagerduty" /\ pc = "ready" /\ ncalls > 0
    /\ args.source = None /\ args.component = None
    /\ adapter.source = default_source
    /\ payload.payload.component = default_component

====
